---- MODULE Spec2Model ----
(***************************************************************************)
(* cluster-cache: a shared LRU cache owned by the cluster's primary        *)
(* process (ClusterCache, the Coordinator) and accessed from workers       *)
(* through IPC messages by ClusterCacheClient instances (Client Proxies).  *)
(*                                                                         *)
(* Strings that the code concatenates or prefix-tests (namespaces, keys,   *)
(* composite keys, client ids) are sequences of one-character strings, so  *)
(* that applyNamespace and startsWith are computed as the code computes    *)
(* them.  Opaque strings (operation names, source ids, values) are TLA+    *)
(* strings.  Objects are functions whose DOMAIN is the set of properties   *)
(* that are present.                                                       *)
(***************************************************************************)
EXTENDS Integers, Sequences, FiniteSets, TLC

VARIABLES
    instance,         \* per process: the static ClusterCache.instance
    listeners,        \* per process: the handleRequest listeners added with cluster.on('message')
    stores,           \* per process: the LRUCache objects created
    news,             \* history: the `new` expressions evaluated so far, with their outcome
    defaultConfig,    \* per process: the static ClusterCacheClient.defaultConfig
    clients,          \* constructed ClusterCacheClient instances, in construction order
    pendingRequests,  \* per client: the requestIds registered in this.pendingRequests
    ops,              \* per requestId: the promise, timer and sent message of one request() call
    toPrimary,        \* messages in flight worker -> primary
    toWorker,         \* messages in flight primary -> worker
    cache,            \* the LRUCache held by the primary's ClusterCache instance: composite key -> value
    log,              \* history: the requests handled by handleRequest, in handling order
    primary,          \* "running", or "crashed" once an exception escaped a listener
    processSend,      \* whether process.send is defined in the workers
    injected          \* number of messages put on the transport by other senders

vars == <<instance, listeners, stores, news, defaultConfig, clients,
          pendingRequests, ops, toPrimary, toWorker, cache, log, primary,
          processSend, injected>>

\* The state of the ClusterCache class and of the constructor-call history.
coordinatorVars == <<instance, listeners, stores, news>>

----------------------------------------------------------------------------
(* Bounds of the model *)

MaxClients == 2

\* Messages put on the transport in one run: requests issued by clients plus
\* messages of other senders.
MaxRequests == 2

\* `new ClusterCache(...)` and `new ClusterCacheClient(...)` expressions
\* evaluated in one run, over all processes.
MaxConstructions == 4

(* Program constants *)

DefaultRequestTimeout == 300

DefaultTtl == 300000

SourceId == "cluster-cache"

Separator == <<":">>

(* Input sets *)

Workers == {"w1", "w2"}

Primary == "primary"

Processes == {Primary} \cup Workers

\* cluster.isPrimary in process p
isPrimary(p) == p = Primary

Undefined == "undefined"

OK == "OK"

\* Keys passed to get/set/delete.
Keys == {<<"a">>, <<":", "a">>}

UuidDigits == <<"1", "2", "3", "4", "5", "6">>

\* uuid v4 of the n-th generateId() call made for a client id.
generateId(n) == <<"u", UuidDigits[n]>>

\* `undefined` for an optional argument is the empty set, a supplied object x is {x}.
None == {}

Some(x) == {x}

EmptyObject == <<>>

\* The config objects passed to `new ClusterCacheClient(config)`.
Configs ==
    { EmptyObject,
      [namespace |-> <<"a">>, allowOverrides |-> TRUE],
      [namespace |-> <<"a", ":">>, requestTimeout |-> 1000,
       requestOptions |-> [ttl |-> 60000]] }

\* The (key, overrides) pairs passed to get; GetOverrides has allowStale and
\* updateAgeOnGet.
GetInputs ==
    { <<k, None>> : k \in Keys } \cup { << <<"a">>, Some([allowStale |-> TRUE]) >> }

\* The (key, value, overrides) triples passed to set; SetOverrides has size
\* and ttl.
SetInputs ==
    { << <<"a">>, "v1", None >>,
      << <<":", "a">>, "v2", None >>,
      << <<"a">>, "v2", Some([ttl |-> 60000]) >>,
      << <<"a">>, "huge", None >> }

\* The options objects passed to `new ClusterCache(options)`.
CacheOptions == { [max |-> 100], [max |-> 500] }

----------------------------------------------------------------------------
(* Namespace key codec and the cache methods of ClusterCache *)

\* Mutant of applyNamespace: the key is left out of the composite key.
applyNamespace_withoutKey(namespace, key) == namespace \o Separator

\* `${namespace}:${key}`
applyNamespace(namespace, key) == namespace \o Separator \o key

\* String.prototype.startsWith
startsWith(s, prefix) ==
    /\ Len(prefix) <= Len(s)
    /\ SubSeq(s, 1, Len(prefix)) = prefix

\* The `key = ''` default of applyNamespace for a request without a key.
ArgKey(args) == IF "key" \in DOMAIN args THEN args.key ELSE <<>>

Restrict(f, S) == [x \in S |-> f[x]]

\* Mutant of get: the lookup uses the raw key instead of the namespaced key.
get_rawKey(store, args) ==
    IF ArgKey(args) \in DOMAIN store THEN store[ArgKey(args)] ELSE Undefined

\* get: the value, or undefined on a miss.
get(store, args) ==
    LET k == applyNamespace(args.namespace, ArgKey(args))
    IN  IF k \in DOMAIN store THEN store[k] ELSE Undefined

\* The values the LRUCache refuses to store: cache.set throws for them
\* before it changes anything (its size policy is the store's, not this
\* program's).
RejectedValues == {"huge"}

\* this.cache.set(...) throws.
storeRejects(args) == "value" \in DOMAIN args /\ args.value \in RejectedValues

\* `${error}` for the error cache.set throws.
StoreRejection == "TypeError: invalid size value"

\* The JavaScript string with the characters s, as a template literal
\* interpolates it.
RECURSIVE Interpolate(_)
Interpolate(s) == IF s = <<>> THEN "" ELSE Head(s) \o Interpolate(Tail(s))

\* Mutant of setError: the message carries the raw key.
setError_rawKey(args) ==
    "Failed to cache value for key " \o Interpolate(ArgKey(args))
        \o ": " \o StoreRejection

\* set's catch block: the message of the Error it throws.
setError(args) ==
    "Failed to cache value for key "
        \o Interpolate(applyNamespace(args.namespace, ArgKey(args)))
        \o ": " \o StoreRejection

\* set: the store after the call.
set(store, args) ==
    LET k == applyNamespace(args.namespace, ArgKey(args))
    IN  IF storeRejects(args) THEN store
        ELSE [x \in DOMAIN store \cup {k} |-> IF x = k THEN args.value ELSE store[x]]

\* Mutant of delete: the raw key is deleted instead of the namespaced key.
delete_rawKey(store, args) ==
    Restrict(store, DOMAIN store \ {ArgKey(args)})

\* delete: the store after the call.
delete(store, args) ==
    Restrict(store, DOMAIN store \ {applyNamespace(args.namespace, ArgKey(args))})

\* Mutant of clear: only one of the namespace's keys is deleted.
clear_partial(store, args) ==
    LET mine == {k \in DOMAIN store :
                    startsWith(k, applyNamespace(args.namespace, <<>>))}
    IN  IF mine = {} THEN store
        ELSE Restrict(store, DOMAIN store \ {CHOOSE k \in mine : TRUE})

\* cache.forEach + cache.delete of every key with the namespace prefix.
clear(store, args) ==
    Restrict(store, {k \in DOMAIN store :
                        ~startsWith(k, applyNamespace(args.namespace, <<>>))})

Methods == {"clear", "delete", "get", "set"}

\* getCacheFn: TRUE when the switch returns a method, FALSE when it throws.
getCacheFn(operation) == operation \in Methods

\* The store after cacheFn(args).
cacheFnStore(operation, store, args) ==
    CASE operation = "clear"  -> clear(store, args)
      [] operation = "delete" -> delete(store, args)
      [] operation = "set"    -> set(store, args)
      [] OTHER                -> store

\* The value cacheFn(args) returns.
cacheFnData(operation, store, args) ==
    IF operation = "get" THEN get(store, args) ELSE OK

\* cacheFn(args) throws: only set has a throwing path.
cacheFnThrows(operation, args) == operation = "set" /\ storeRejects(args)

\* The error cacheFn(args) throws.
cacheFnError(operation, args) == setError(args)

----------------------------------------------------------------------------
(* lodash merge, for the shapes the client passes to it *)

\* merge(object, source) on flat option objects: source's properties are
\* assigned onto object.
mergeOptions(object, source) ==
    [k \in DOMAIN object \cup DOMAIN source |->
        IF k \in DOMAIN source THEN source[k] ELSE object[k]]

\* merge(object, source) on config objects: requestOptions is merged
\* recursively, every other property of source is assigned onto object.
merge(object, source) ==
    [k \in DOMAIN object \cup DOMAIN source |->
        IF k \notin DOMAIN source THEN object[k]
        ELSE IF k = "requestOptions" /\ k \in DOMAIN object
             THEN mergeOptions(object[k], source[k])
             ELSE source[k]]

----------------------------------------------------------------------------
(* ClusterCacheClient *)

\* ClusterCacheClient.defaultConfig as the class is loaded (logger and the
\* unused top-level updateAgeOnGet are left out).
InitialDefaultConfig ==
    [allowOverrides |-> FALSE,
     namespace      |-> <<>>,
     requestTimeout |-> DefaultRequestTimeout,
     requestOptions |-> [allowStale |-> FALSE, ttl |-> DefaultTtl,
                         updateAgeOnGet |-> TRUE]]

ClientIndexes == 1..Len(clients)

RequestIds == 1..Len(ops)

\* this.config: merge() returns its first argument, so the config of every
\* instance is the static defaultConfig object of its process.
thisConfig(c) == defaultConfig[clients[c].worker]

\* The worker processes a new client may be constructed in: one that already
\* holds a client, or the first that holds none (workers are interchangeable).
UsedWorkers == {clients[c].worker : c \in ClientIndexes}

WorkerChoices ==
    UsedWorkers \cup (IF "w1" \notin UsedWorkers THEN {"w1"}
                      ELSE IF "w2" \notin UsedWorkers THEN {"w2"} ELSE {})

\* The processes a constructor may be called in: the primary and
\* WorkerChoices.
ProcessChoices == {Primary} \cup WorkerChoices

\* The Error a constructor throws in a process of the wrong role.
RoleViolation == "RoleViolation"

\* Mutant of clientRoleViolation: the constructor does not check the role.
clientRoleViolation_unchecked(p) == FALSE

\* constructor: `if (cluster.isPrimary) throw`
clientRoleViolation(p) == isPrimary(p)

\* constructor(config), evaluated in process p
Construct(config, p) ==
    /\ Len(news) < MaxConstructions
    /\ LET call == [class |-> "ClusterCacheClient", process |-> p]
       IN  IF clientRoleViolation(p)
           THEN /\ news' = Append(news, [error |-> RoleViolation] @@ call)
                /\ UNCHANGED <<defaultConfig, clients, pendingRequests>>
           ELSE /\ Len(clients) < MaxClients
                /\ LET clientId == generateId(Len(clients) + 1)
                       merged   == merge(defaultConfig[p], config)
                   IN  /\ defaultConfig' = [defaultConfig EXCEPT ![p] = merged]
                       /\ clients' = Append(clients,
                              [clientId  |-> clientId,
                               namespace |-> IF merged.namespace # <<>>
                                             THEN merged.namespace ELSE clientId,
                               worker    |-> p,
                               config    |-> config])
                       /\ pendingRequests' = Append(pendingRequests, {})
                       /\ news' = Append(news, [value |-> clientId] @@ call)
    /\ UNCHANGED <<instance, listeners, stores, ops, toPrimary, toWorker, cache,
                   log, primary, processSend, injected>>

\* addRequestOptions: `overrides && !this.config.allowOverrides`
overridesRefused(config, overrides) ==
    overrides # None /\ ~config.allowOverrides

\* merge(this.config.requestOptions, overrides)
mergedRequestOptions(config, overrides) ==
    IF overrides = None THEN config.requestOptions
    ELSE mergeOptions(config.requestOptions, CHOOSE o \in overrides : TRUE)

\* addRequestOptions: the args it returns.
addRequestOptions(config, args, overrides) ==
    IF overridesRefused(config, overrides) THEN args
    ELSE [options |-> mergedRequestOptions(config, overrides)] @@ args

\* addRequestOptions: the config object after the call (merge assigns the
\* overrides onto this.config.requestOptions).
configAfterOptions(config, overrides) ==
    IF overridesRefused(config, overrides) THEN config
    ELSE [config EXCEPT !.requestOptions = mergedRequestOptions(config, overrides)]

\* request(operation, args): a fresh requestId, the failsafe timer, the
\* pendingRequests entry and process.send(message).
request(c, operation, args, baseArgs, overrides) ==
    /\ Len(ops) + injected < MaxRequests
    /\ LET requestId == Len(ops) + 1
           message   == [args      |-> args,
                         clientId  |-> clients[c].clientId,
                         operation |-> operation,
                         requestId |-> requestId,
                         sourceId  |-> SourceId]
       IN  /\ ops' = Append(ops,
                  [client    |-> c,
                   message   |-> message,
                   promise   |-> "pending",
                   result    |-> Undefined,
                   timer     |-> "armed",
                   timeoutMs |-> thisConfig(c).requestTimeout,
                   baseArgs  |-> baseArgs,
                   overrides |-> overrides,
                   config    |-> thisConfig(c),
                   warned    |-> overridesRefused(thisConfig(c), overrides)])
           /\ pendingRequests' = [pendingRequests EXCEPT ![c] = @ \cup {requestId}]
           /\ toPrimary' = IF processSend
                           THEN toPrimary \cup {[from |-> clients[c].worker,
                                                 message |-> message]}
                           ELSE toPrimary
    /\ UNCHANGED <<coordinatorVars, clients, toWorker, cache, log, primary,
                   processSend, injected>>

\* get(key, overrides)
ClientGet(c, key, overrides) ==
    LET baseArgs == [key |-> key, namespace |-> clients[c].namespace]
    IN  /\ request(c, "get", addRequestOptions(thisConfig(c), baseArgs, overrides),
                   baseArgs, overrides)
        /\ defaultConfig' = [defaultConfig EXCEPT ![clients[c].worker] =
                                configAfterOptions(thisConfig(c), overrides)]

\* set(key, value, overrides)
ClientSet(c, key, value, overrides) ==
    LET baseArgs == [key |-> key, namespace |-> clients[c].namespace, value |-> value]
    IN  /\ request(c, "set", addRequestOptions(thisConfig(c), baseArgs, overrides),
                   baseArgs, overrides)
        /\ defaultConfig' = [defaultConfig EXCEPT ![clients[c].worker] =
                                configAfterOptions(thisConfig(c), overrides)]

\* delete(key)
ClientDelete(c, key) ==
    LET baseArgs == [key |-> key, namespace |-> clients[c].namespace]
    IN  /\ request(c, "delete", baseArgs, baseArgs, None)
        /\ UNCHANGED defaultConfig

\* clear()
ClientClear(c) ==
    LET baseArgs == [namespace |-> clients[c].namespace]
    IN  /\ request(c, "clear", baseArgs, baseArgs, None)
        /\ UNCHANGED defaultConfig

\* The failsafeTimeout callback: reject(new Error(... timed out ...)).
TimeoutError == "TimeoutError"

\* Mutant of failsafeTimeout: the callback does not reject the promise.
failsafeTimeout_withoutReject(op) == [op EXCEPT !.timer = "fired"]

failsafeTimeout(op) ==
    [op EXCEPT !.timer   = "fired",
               !.promise = IF op.promise = "pending" THEN "rejected" ELSE @,
               !.result  = IF op.promise = "pending" THEN TimeoutError ELSE @]

TimeoutFires(r) ==
    /\ r \in RequestIds
    /\ ops[r].timer = "armed"
    /\ ops' = [ops EXCEPT ![r] = failsafeTimeout(@)]
    /\ UNCHANGED <<coordinatorVars, defaultConfig, clients, pendingRequests,
                   toPrimary, toWorker, cache, log, primary, processSend, injected>>

\* Mutant of pendingResolver: the promise is settled again by a late reply.
pendingResolver_resettles(op, reply) ==
    [op EXCEPT !.timer   = IF op.timer = "armed" THEN "cleared" ELSE @,
               !.promise = IF "error" \in DOMAIN reply THEN "rejected" ELSE "resolved",
               !.result  = IF "error" \in DOMAIN reply THEN reply.error
                           ELSE reply.data]

\* The closure stored in pendingRequests[requestId]: clearTimeout, then
\* reject(reply.error) or resolve(reply.data); a settled promise stays as it is.
pendingResolver(op, reply) ==
    [op EXCEPT !.timer   = IF op.timer = "armed" THEN "cleared" ELSE @,
               !.promise = IF op.promise # "pending" THEN @
                           ELSE IF "error" \in DOMAIN reply THEN "rejected"
                           ELSE "resolved",
               !.result  = IF op.promise # "pending" THEN @
                           ELSE IF "error" \in DOMAIN reply THEN reply.error
                           ELSE reply.data]

\* Mutant of handleReplyMatches: the sourceId is not compared.
handleReplyMatches_anySource(c, reply) ==
    /\ reply.clientId = clients[c].clientId
    /\ reply.requestId \in pendingRequests[c]

\* handleReply: the condition under which the reply is acted on.
handleReplyMatches(c, reply) ==
    /\ reply.sourceId = SourceId
    /\ reply.clientId = clients[c].clientId
    /\ reply.requestId \in pendingRequests[c]

\* process 'message' event in worker w: every client constructed in that
\* process runs handleReply on the message.
handleMessage(w, reply) ==
    LET matched == {c \in ClientIndexes :
                       clients[c].worker = w /\ handleReplyMatches(c, reply)}
    IN  /\ ops' = [r \in RequestIds |->
                     IF matched # {} /\ r = reply.requestId
                     THEN pendingResolver(ops[r], reply) ELSE ops[r]]
        /\ pendingRequests' = [c \in ClientIndexes |->
                     IF c \in matched
                     THEN pendingRequests[c] \ {reply.requestId}
                     ELSE pendingRequests[c]]

\* Delivery of a reply the primary sent with worker.send.
DeliverReply(m) ==
    /\ m \in toWorker
    /\ toWorker' = toWorker \ {m}
    /\ handleMessage(m.to, m.reply)
    /\ UNCHANGED <<coordinatorVars, defaultConfig, clients, toPrimary, cache, log,
                   primary, processSend, injected>>

----------------------------------------------------------------------------
(* ClusterCache *)

\* Mutant of returnsExisting: the constructor does not look at the
\* recorded instance.
returnsExisting_never(p) == FALSE

\* constructor: `if (ClusterCache.instance) return ClusterCache.instance`
returnsExisting(p) == instance[p] # None

\* Mutant of coordinatorRoleViolation: the constructor does not check the
\* role.
coordinatorRoleViolation_unchecked(p) == FALSE

\* constructor: `if (!cluster.isPrimary) throw`
coordinatorRoleViolation(p) == ~isPrimary(p)

\* constructor(options), evaluated in process p.  The object it creates is
\* identified by the position of the call in the history.
NewClusterCache(p, options) ==
    /\ Len(news) < MaxConstructions
    /\ LET call == [class |-> "ClusterCache", process |-> p, options |-> options]
           this == [id |-> Len(news) + 1, options |-> options]
       IN  IF returnsExisting(p)
           THEN /\ news' = Append(news, [value |-> CHOOSE i \in instance[p] : TRUE] @@ call)
                /\ UNCHANGED <<instance, listeners, stores, cache>>
           ELSE IF coordinatorRoleViolation(p)
           THEN /\ news' = Append(news, [error |-> RoleViolation] @@ call)
                /\ UNCHANGED <<instance, listeners, stores, cache>>
           ELSE /\ stores' = [stores EXCEPT ![p] = @ + 1]
                /\ cache' = <<>>
                /\ listeners' = [listeners EXCEPT ![p] = @ + 1]
                /\ instance' = [instance EXCEPT ![p] = Some(this)]
                /\ news' = Append(news, [value |-> this] @@ call)
    /\ UNCHANGED <<defaultConfig, clients, pendingRequests, ops, toPrimary,
                   toWorker, log, primary, processSend, injected>>

\* Mutant of dataReply: the reply carries no requestId of the request.
dataReply_withoutRequestId(req, data) ==
    [clientId  |-> req.clientId,
     data      |-> data,
     requestId |-> 0,
     sourceId  |-> req.sourceId]

\* handleRequest's reply on the path where cacheFn(args) returned.
dataReply(req, data) ==
    [clientId  |-> req.clientId,
     data      |-> data,
     requestId |-> req.requestId,
     sourceId  |-> req.sourceId]

\* handleRequest's reply in the catch block.
errorReply(req, error) ==
    [clientId  |-> req.clientId,
     error     |-> error,
     requestId |-> req.requestId,
     sourceId  |-> req.sourceId]

\* handleRequest(worker, request).  getCacheFn is called before the try
\* block, so its TypeError leaves the listener: an uncaught exception, which
\* ends the primary process.
handleRequest(worker, req) ==
    IF getCacheFn(req.operation)
    THEN LET reply == IF cacheFnThrows(req.operation, req.args)
                      THEN errorReply(req, cacheFnError(req.operation, req.args))
                      ELSE dataReply(req, cacheFnData(req.operation, cache, req.args))
         IN  /\ cache' = cacheFnStore(req.operation, cache, req.args)
             /\ toWorker' = toWorker \cup {[to |-> worker, reply |-> reply]}
             /\ log' = Append(log, [message |-> req, from |-> worker,
                                    threw |-> FALSE, replies |-> {reply},
                                    to |-> {worker}])
             /\ UNCHANGED primary
    ELSE /\ primary' = "crashed"
         /\ log' = Append(log, [message |-> req, from |-> worker,
                                threw |-> TRUE, replies |-> {}, to |-> {}])
         /\ UNCHANGED <<cache, toWorker>>

\* cluster 'message' event for a message a ClusterCacheClient sent.
HandleRequest(m) ==
    /\ primary = "running"
    /\ listeners[Primary] > 0
    /\ m \in toPrimary
    /\ toPrimary' = toPrimary \ {m}
    /\ handleRequest(m.from, m.message)
    /\ UNCHANGED <<coordinatorVars, defaultConfig, clients, pendingRequests, ops,
                   processSend, injected>>

\* Requests handled in one run of the Coordinator alone.
MaxArrivals == 4

\* The namespaces of the clients built from Configs.
Namespaces == {<<"a">>, <<"a", ":">>}

\* The values passed to set.
Values == {in[2] : in \in SetInputs}

\* The args objects the clients' get, set, delete and clear build.
RequestArgs(operation) ==
    CASE operation = "clear" -> {[namespace |-> ns] : ns \in Namespaces}
      [] operation = "set"   -> {[key |-> k, namespace |-> ns, value |-> v] :
                                    k \in Keys, ns \in Namespaces, v \in Values}
      [] OTHER               -> {[key |-> k, namespace |-> ns] :
                                    k \in Keys, ns \in Namespaces}

\* The Request messages a client's request() builds; the request id is the
\* position of the Request in the run.
Requests ==
    UNION { { [args |-> args, clientId |-> generateId(1), operation |-> operation,
               requestId |-> Len(log) + 1, sourceId |-> SourceId] :
              args \in RequestArgs(operation) } : operation \in Methods }

\* cluster 'message' event for a Request, whatever client of worker w sent it.
Arrival(w, req) ==
    /\ primary = "running"
    /\ listeners[Primary] > 0
    /\ Len(log) < MaxArrivals
    /\ handleRequest(w, req)
    /\ UNCHANGED <<coordinatorVars, defaultConfig, clients, pendingRequests, ops,
                   toPrimary, processSend, injected>>

----------------------------------------------------------------------------
(* Other senders on the transport *)

OtherSourceId == "other-protocol"

Stranger == <<"x">>

\* Messages reaching the primary's 'message' listener that no
\* ClusterCacheClient of this version built.
ForeignRequests ==
    { [args |-> [namespace |-> <<"a">>], clientId |-> Stranger,
       operation |-> "flush", requestId |-> 0, sourceId |-> SourceId],
      [args |-> [namespace |-> <<"a">>], clientId |-> Stranger,
       operation |-> "clear", requestId |-> 0, sourceId |-> OtherSourceId] }

\* cluster 'message' event for a message of another sender in worker w.
ForeignRequest(w, req) ==
    /\ primary = "running"
    /\ listeners[Primary] > 0
    /\ Len(ops) + injected < MaxRequests
    /\ injected' = injected + 1
    /\ handleRequest(w, req)
    /\ UNCHANGED <<coordinatorVars, defaultConfig, clients, pendingRequests, ops,
                   toPrimary, processSend>>

\* Messages reaching a worker's 'message' listeners that are not the
\* Coordinator's reply to a request of a client in that worker: for each
\* issued request, one of another protocol and one carrying another client id.
ForeignReplies ==
    { [clientId |-> clients[ops[r].client].clientId, data |-> OK,
       requestId |-> r, sourceId |-> OtherSourceId] : r \in RequestIds }
    \cup
    { [clientId |-> Stranger, data |-> OK,
       requestId |-> r, sourceId |-> SourceId] : r \in RequestIds }

\* process 'message' event in the issuing client's worker for such a message.
ForeignReply(reply) ==
    /\ Len(ops) + injected < MaxRequests
    /\ injected' = injected + 1
    /\ handleMessage(clients[ops[reply.requestId].client].worker, reply)
    /\ UNCHANGED <<coordinatorVars, defaultConfig, clients, toPrimary, toWorker,
                   cache, log, primary, processSend>>

----------------------------------------------------------------------------
(* The system *)

\* The processes as their modules are loaded: nothing is constructed yet.
Start ==
    /\ instance = [p \in Processes |-> None]
    /\ listeners = [p \in Processes |-> 0]
    /\ stores = [p \in Processes |-> 0]
    /\ news = <<>>
    /\ defaultConfig = [p \in Processes |-> InitialDefaultConfig]
    /\ clients = <<>>
    /\ pendingRequests = <<>>
    /\ ops = <<>>
    /\ toPrimary = {}
    /\ toWorker = {}
    /\ cache = <<>>
    /\ log = <<>>
    /\ primary = "running"
    /\ processSend = TRUE
    /\ injected = 0

\* The first ClusterCache object of the primary.
FirstInstance == [id |-> 1, options |-> [max |-> 100]]

\* The state after the primary has evaluated `new ClusterCache({max: 100})`.
Init ==
    /\ instance = [p \in Processes |-> IF isPrimary(p) THEN Some(FirstInstance) ELSE None]
    /\ listeners = [p \in Processes |-> IF isPrimary(p) THEN 1 ELSE 0]
    /\ stores = [p \in Processes |-> IF isPrimary(p) THEN 1 ELSE 0]
    /\ news = << [class |-> "ClusterCache", process |-> Primary,
                  options |-> FirstInstance.options, value |-> FirstInstance] >>
    /\ defaultConfig = [p \in Processes |-> InitialDefaultConfig]
    /\ clients = <<>>
    /\ pendingRequests = <<>>
    /\ ops = <<>>
    /\ toPrimary = {}
    /\ toWorker = {}
    /\ cache = <<>>
    /\ log = <<>>
    /\ primary = "running"
    /\ processSend \in BOOLEAN
    /\ injected = 0

Next ==
    \/ \E config \in Configs, w \in WorkerChoices : Construct(config, w)
    \/ \E c \in ClientIndexes, in \in GetInputs : ClientGet(c, in[1], in[2])
    \/ \E c \in ClientIndexes, in \in SetInputs : ClientSet(c, in[1], in[2], in[3])
    \/ \E c \in ClientIndexes, key \in Keys : ClientDelete(c, key)
    \/ \E c \in ClientIndexes : ClientClear(c)
    \/ \E r \in RequestIds : TimeoutFires(r)
    \/ \E m \in toWorker : DeliverReply(m)
    \/ \E m \in toPrimary : HandleRequest(m)
    \/ \E w \in Workers, req \in ForeignRequests : ForeignRequest(w, req)
    \/ \E reply \in ForeignReplies : ForeignReply(reply)

Spec == Init /\ [][Next]_vars

\* The constructors in every process, from the start of the processes, with
\* the sets that fill the store.
LifecycleNext ==
    \/ \E p \in ProcessChoices, options \in CacheOptions : NewClusterCache(p, options)
    \/ \E config \in Configs, p \in ProcessChoices : Construct(config, p)
    \/ \E c \in ClientIndexes, in \in SetInputs : ClientSet(c, in[1], in[2], in[3])
    \/ \E m \in toPrimary : HandleRequest(m)

LifecycleSpec == Start /\ [][LifecycleNext]_vars

\* The Coordinator alone, receiving the Requests of its clients one after
\* another.
StoreNext == \E req \in Requests : Arrival("w1", req)

StoreSpec == Init /\ [][StoreNext]_vars

\* Timers: a timer that is armed and not cleared fires.
FairSpec == Spec /\ \A r \in 1..MaxRequests : WF_vars(TimeoutFires(r))

----------------------------------------------------------------------------
(* History read off the log *)

LogIndexes == 1..Len(log)

Handled(i) == log[i].message

\* log[i] is a handled request of the given operation that did not throw
\* out of the listener.
IsOp(i, operation) ==
    ~log[i].threw /\ Handled(i).operation = operation

\* The (namespace, key) pairs set and not since deleted or cleared, after
\* the first n handled requests.
RECURSIVE LiveAfter(_)
LiveAfter(n) ==
    IF n = 0 THEN {}
    ELSE LET before == LiveAfter(n - 1)
             args   == Handled(n).args
         IN  CASE IsOp(n, "set") /\ ~storeRejects(args)
                                    -> before \cup {<<args.namespace, ArgKey(args)>>}
               [] IsOp(n, "delete") -> before \ {<<args.namespace, ArgKey(args)>>}
               [] IsOp(n, "clear")  -> {p \in before : p[1] # args.namespace}
               [] OTHER             -> before

\* The reply sent for log[i].
Replied(i) == CHOOSE reply \in log[i].replies : TRUE

\* reply.data of the reply sent for log[i].
ReplyData(i) ==
    IF "data" \in DOMAIN Replied(i) THEN Replied(i).data ELSE Undefined

\* The step appends one handled request to the log.
HandlesOne == Len(log') = Len(log) + 1

----------------------------------------------------------------------------
(* C1 *)

\* C1: once a request's timer has fired, the operation is rejected with the
\* TimeoutError and no PendingOperation is registered for its requestId.
C1_TimeoutRemovesPending ==
    \A r \in RequestIds :
        ops[r].timer = "fired" =>
            /\ ops[r].promise = "rejected"
            /\ ops[r].result = TimeoutError
            /\ r \notin pendingRequests[ops[r].client]

----------------------------------------------------------------------------
(* C2 *)

\* C2: no exception escapes handleRequest; a Request with an unrecognised
\* operation gets a Reply carrying an error, sent to its sender, and the
\* Coordinator keeps running.
C2_NoExceptionEscapes ==
    /\ primary = "running"
    /\ \A i \in LogIndexes :
          /\ ~log[i].threw
          /\ Handled(i).operation \notin Methods =>
                /\ log[i].to = {log[i].from}
                /\ \E reply \in log[i].replies : "error" \in DOMAIN reply

----------------------------------------------------------------------------
(* C3 *)

\* C3: a get(k, ns) returns a value only if a set(k, ., ns) was handled
\* before it and (ns, k) was not deleted or cleared since; in particular a
\* set under another namespace never makes it a hit.
C3_GetHitsOnlyOwnNamespace ==
    \A i \in LogIndexes :
        (IsOp(i, "get") /\ ReplyData(i) # Undefined) =>
            <<Handled(i).args.namespace, ArgKey(Handled(i).args)>> \in LiveAfter(i - 1)

----------------------------------------------------------------------------
(* C4 *)

\* C4: handling a client's clear(ns) leaves every entry stored under another
\* namespace present and with its value unchanged.
C4_ClearLeavesOtherNamespaces ==
    [][ LET new == log'[Len(log) + 1]
        IN  (/\ HandlesOne
             /\ ~new.threw
             /\ new.message.operation = "clear"
             /\ new.message.sourceId = SourceId) =>
               \A p \in LiveAfter(Len(log)) :
                  LET k == applyNamespace(p[1], p[2])
                  IN  (p[1] # new.message.args.namespace /\ k \in DOMAIN cache) =>
                         (k \in DOMAIN cache' /\ cache'[k] = cache[k]) ]_vars

----------------------------------------------------------------------------
(* C5 *)

\* C5: a client constructed with no namespace configured has its own
\* generated client id as namespace.
C5_DefaultNamespaceIsClientId ==
    \A c \in ClientIndexes :
        "namespace" \notin DOMAIN clients[c].config =>
            clients[c].namespace = clients[c].clientId

----------------------------------------------------------------------------
(* C6 *)

\* C6: a get or set called with overrides while allowOverrides is false
\* logs a warning and sends the configured default requestOptions, as the
\* same call without overrides does.
C6_RefusedOverridesSendDefaults ==
    \A r \in RequestIds :
        (ops[r].overrides # None /\ ~ops[r].config.allowOverrides) =>
            /\ ops[r].warned
            /\ "options" \in DOMAIN ops[r].message.args
            /\ ops[r].message.args.options = ops[r].config.requestOptions
            /\ ops[r].message.args =
                  addRequestOptions(ops[r].config, ops[r].baseArgs, None)

----------------------------------------------------------------------------
(* C7 *)

\* The log entries handling the request of operation r.
EntriesOf(r) == {i \in LogIndexes : Handled(i) = ops[r].message}

\* A settled operation was resolved with the data of a reply to its request,
\* rejected with the error of a reply to its request, or rejected by its own
\* timer with the TimeoutError.
SettledByReplyOrTimeout(r) ==
    \/ ops[r].promise = "pending"
    \/ /\ ops[r].promise = "resolved"
       /\ \E i \in EntriesOf(r) :
             /\ ~log[i].threw
             /\ "data" \in DOMAIN Replied(i)
             /\ ReplyData(i) = ops[r].result
    \/ /\ ops[r].promise = "rejected"
       /\ ops[r].timer = "cleared"
       /\ \E i \in EntriesOf(r) :
             /\ ~log[i].threw
             /\ "error" \in DOMAIN Replied(i)
             /\ Replied(i).error = ops[r].result
    \/ /\ ops[r].promise = "rejected"
       /\ ops[r].result = TimeoutError
       /\ ops[r].timer = "fired"

\* C7: every operation a client issues eventually settles, resolved with the
\* reply's data or rejected with the TimeoutError, also when the request is
\* never sent or never answered.
C7_EveryOperationSettles ==
    /\ [](\A r \in RequestIds : SettledByReplyOrTimeout(r))
    /\ \A r \in 1..MaxRequests :
          (r \in RequestIds) ~> (r \in RequestIds /\ ops[r].promise # "pending")

\* An operation whose request was never sent has been rejected by its timer.
C7_Witness ==
    \E r \in RequestIds :
        /\ ~processSend
        /\ ops[r].promise = "rejected"
        /\ ops[r].result = TimeoutError

----------------------------------------------------------------------------
(* C8 *)

\* What the claim calls a reply that client c must ignore.
NotForClient(c, reply) ==
    \/ reply.sourceId # SourceId
    \/ reply.clientId # clients[c].clientId
    \/ reply.requestId \notin pendingRequests[c]

\* Client c's registry and operations are as before the step.
ClientUntouched(c) ==
    /\ pendingRequests'[c] = pendingRequests[c]
    /\ \A r \in RequestIds : ops[r].client = c => ops'[r] = ops[r]

\* C8: a message delivered in a worker leaves untouched every client for
\* which its sourceId, clientId or requestId does not match.
C8_UnmatchedReplyIgnored ==
    [][ /\ \A m \in toWorker :
              DeliverReply(m) =>
                 \A c \in ClientIndexes : NotForClient(c, m.reply) => ClientUntouched(c)
        /\ \A reply \in ForeignReplies :
              ForeignReply(reply) =>
                 \A c \in ClientIndexes : NotForClient(c, reply) => ClientUntouched(c) ]_vars

\* A message of another sender was delivered in a worker holding two clients
\* while an operation was pending there, and the operation is still pending.
C8_Witness ==
    /\ injected = 1
    /\ log = <<>>
    /\ Len(clients) = 2
    /\ clients[1].worker = clients[2].worker
    /\ \E r \in RequestIds :
          /\ ops[r].promise = "pending"
          /\ r \in pendingRequests[ops[r].client]

----------------------------------------------------------------------------
(* C9 *)

\* log[i] and log[j] are sets by two clients under one namespace for
\* distinct keys and of values the store accepts, and nothing but gets was
\* handled besides them.
ConcurrentSets(i, j) ==
    /\ i # j
    /\ IsOp(i, "set") /\ IsOp(j, "set")
    /\ ~storeRejects(Handled(i).args) /\ ~storeRejects(Handled(j).args)
    /\ Handled(i).clientId # Handled(j).clientId
    /\ Handled(i).args.namespace = Handled(j).args.namespace
    /\ Handled(i).args.key # Handled(j).args.key
    /\ \A k \in LogIndexes \ {i, j} : IsOp(k, "get")

\* C9: two clients' sets of distinct keys under a shared namespace are both
\* acknowledged with OK, in whichever order they were handled, and a get of
\* either key then returns the value set for it.
C9_NoLostUpdate ==
    \A i, j \in LogIndexes :
        ConcurrentSets(i, j) =>
            /\ ReplyData(i) = OK
            /\ ReplyData(j) = OK
            /\ get(cache, [key |-> Handled(i).args.key,
                           namespace |-> Handled(i).args.namespace])
                  = Handled(i).args.value
            /\ get(cache, [key |-> Handled(j).args.key,
                           namespace |-> Handled(j).args.namespace])
                  = Handled(j).args.value

\* Both sets were handled and both clients' operations resolved with OK.
C9_Witness ==
    \E i, j \in LogIndexes :
        /\ ConcurrentSets(i, j)
        /\ \A r \in RequestIds : ops[r].promise = "resolved" /\ ops[r].result = OK

----------------------------------------------------------------------------
(* C10 *)

\* log[i] is a get handled right after a set, which the store accepted, of
\* the same key under the same namespace.
GetAfterSet(i) ==
    /\ i > 1
    /\ IsOp(i - 1, "set") /\ IsOp(i, "get")
    /\ ~storeRejects(Handled(i - 1).args)
    /\ Handled(i).args.namespace = Handled(i - 1).args.namespace
    /\ Handled(i).args.key = Handled(i - 1).args.key

\* C10: a get handled next after a set of the same key under the same
\* namespace is answered with the value set, and the getting client's
\* operation, when it is resolved, is resolved with that value.
C10_GetReturnsValueSet ==
    \A i \in LogIndexes :
        GetAfterSet(i) =>
            /\ ReplyData(i) = Handled(i - 1).args.value
            /\ \A r \in RequestIds :
                  (ops[r].message = Handled(i) /\ ops[r].promise = "resolved") =>
                     ops[r].result = Handled(i - 1).args.value

\* Another client's get was answered after the set and resolved with the
\* value.
C10_Witness ==
    \E i \in LogIndexes :
        /\ GetAfterSet(i)
        /\ Handled(i).clientId # Handled(i - 1).clientId
        /\ \E r \in RequestIds :
              /\ ops[r].message = Handled(i)
              /\ ops[r].promise = "resolved"
              /\ ops[r].result = Handled(i - 1).args.value

----------------------------------------------------------------------------
(* C11 *)

\* log[i] is a client's clear of namespace ns and no set under ns was
\* handled after it.
ClearedSince(i, ns) ==
    /\ IsOp(i, "clear")
    /\ Handled(i).sourceId = SourceId
    /\ Handled(i).args.namespace = ns
    /\ \A j \in (i + 1)..Len(log) :
          ~(IsOp(j, "set") /\ Handled(j).args.namespace = ns)

\* C11: once clear(ns) has been handled, and until a set under ns is
\* handled, the store holds no composite key starting with ns and the
\* separator, and a get of any key under ns is a miss.
C11_ClearedNamespaceMisses ==
    \A i \in LogIndexes : \A ns \in Namespaces :
        ClearedSince(i, ns) =>
            /\ \A k \in DOMAIN cache : ~startsWith(k, applyNamespace(ns, <<>>))
            /\ \A key \in Keys :
                  get(cache, [key |-> key, namespace |-> ns]) = Undefined

----------------------------------------------------------------------------
(* C12 *)

NewsIndexes == 1..Len(news)

\* The `new ClusterCache(...)` expressions evaluated in process p.
CoordinatorNews(p) ==
    {i \in NewsIndexes : news[i].class = "ClusterCache" /\ news[i].process = p}

\* The `new ClusterCacheClient(...)` expressions evaluated in process p.
ClientNews(p) ==
    {i \in NewsIndexes : news[i].class = "ClusterCacheClient" /\ news[i].process = p}

\* The step evaluates one `new` expression.
EvaluatesNew == Len(news') = Len(news) + 1

\* Every construction in the primary returned the object of the first one,
\* which holds the options of the first one, and one store and one listener
\* exist there.
SingleInstance ==
    \A i \in CoordinatorNews(Primary) :
        LET first == CHOOSE j \in CoordinatorNews(Primary) :
                        \A k \in CoordinatorNews(Primary) : j <= k
        IN  /\ "value" \in DOMAIN news[i]
            /\ news[i].value = news[first].value
            /\ news[i].value.options = news[first].options
            /\ instance[Primary] = Some(news[first].value)
            /\ stores[Primary] = 1
            /\ listeners[Primary] = 1

\* C12: every construction of a ClusterCache in the primary returns the
\* instance the first one created; a later construction, whatever its
\* options, leaves the instance, its options and the store's contents as
\* they are, and handleRequest is subscribed once.
C12_SingletonCoordinator ==
    /\ []SingleInstance
    /\ [][ LET new == news'[Len(news) + 1]
           IN  (/\ EvaluatesNew
                /\ new.class = "ClusterCache"
                /\ new.process = Primary
                /\ instance[Primary] # None) =>
                  UNCHANGED <<instance, listeners, stores, cache>> ]_vars

\* A second construction with other options was evaluated in the primary
\* while the store held an entry.
C12_Witness ==
    /\ cache # <<>>
    /\ Len(news) = 3
    /\ news[1].class = "ClusterCache" /\ news[1].process = Primary
    /\ news[3].class = "ClusterCache" /\ news[3].process = Primary
    /\ news[3].options # news[1].options
    /\ Len(log) = 1

----------------------------------------------------------------------------
(* C13 *)

\* Every construction in a process of the wrong role threw the
\* RoleViolation error, and such a process holds no instance, store,
\* listener, client or changed default configuration.
NoStateInWrongRole ==
    /\ \A w \in Workers :
          /\ \A i \in CoordinatorNews(w) :
                "error" \in DOMAIN news[i] /\ news[i].error = RoleViolation
          /\ instance[w] = None
          /\ stores[w] = 0
          /\ listeners[w] = 0
    /\ \A i \in ClientNews(Primary) :
          "error" \in DOMAIN news[i] /\ news[i].error = RoleViolation
    /\ \A c \in ClientIndexes : ~isPrimary(clients[c].worker)
    /\ defaultConfig[Primary] = InitialDefaultConfig

\* C13: constructing a ClusterCache in a worker or a ClusterCacheClient in
\* the primary throws the RoleViolation error and changes nothing, at the
\* first attempt and at every later one.
C13_RoleViolationCreatesNoState ==
    /\ []NoStateInWrongRole
    /\ [][ LET new == news'[Len(news) + 1]
           IN  (/\ EvaluatesNew
                /\ \/ new.class = "ClusterCache" /\ ~isPrimary(new.process)
                   \/ new.class = "ClusterCacheClient" /\ isPrimary(new.process)) =>
                  /\ "error" \in DOMAIN new
                  /\ UNCHANGED <<instance, listeners, stores, defaultConfig,
                                 clients, pendingRequests, ops, toPrimary,
                                 toWorker, cache, log, primary>> ]_vars

\* Both constructors were attempted twice in a process of the wrong role.
C13_Witness ==
    /\ \E w \in Workers : Cardinality(CoordinatorNews(w)) = 2
    /\ Cardinality(ClientNews(Primary)) = 2

----------------------------------------------------------------------------
(* C14 *)

\* C14: handling a delete replies with OK and removes the namespaced key and
\* nothing else; when the key is absent the store stays as it is, and a
\* second handling of the same delete changes nothing more.
C14_DeleteAcknowledged ==
    [][ LET new  == log'[Len(log) + 1]
            args == new.message.args
            k    == applyNamespace(args.namespace, ArgKey(args))
        IN  (HandlesOne /\ new.message.operation = "delete") =>
               /\ ~new.threw
               /\ new.replies = {dataReply(new.message, OK)}
               /\ DOMAIN cache' = DOMAIN cache \ {k}
               /\ \A x \in DOMAIN cache' : cache'[x] = cache[x]
               /\ (k \notin DOMAIN cache => cache' = cache)
               /\ delete(cache', args) = cache' ]_vars

\* Two keys were set under one namespace, one of them was deleted and the
\* same delete was handled once more: the other key is still there.
C14_Witness ==
    /\ Len(log) = 4
    /\ IsOp(1, "set") /\ IsOp(2, "set") /\ IsOp(3, "delete") /\ IsOp(4, "delete")
    /\ Handled(1).args.namespace = Handled(2).args.namespace
    /\ Handled(1).args.key # Handled(2).args.key
    /\ Handled(3).args = [key |-> Handled(2).args.key,
                          namespace |-> Handled(2).args.namespace]
    /\ Handled(4).args = Handled(3).args
    /\ DOMAIN cache = {applyNamespace(Handled(1).args.namespace, Handled(1).args.key)}

----------------------------------------------------------------------------
(* C15 *)

\* log[i] is a set for which cache.set threw.
RejectedSet(i) ==
    /\ ~log[i].threw
    /\ Handled(i).operation = "set"
    /\ storeRejects(Handled(i).args)

\* The text of an error naming composite key k.
NamingKey(k) ==
    "Failed to cache value for key " \o Interpolate(k) \o ": " \o StoreRejection

\* C15: for a set the store rejects, the Coordinator sends the requesting
\* worker one Reply whose error names the composite key and which has no
\* data; the client's operation is never resolved and, when the Reply
\* settles it, is rejected with that error; the Coordinator keeps running
\* and the store is as before.
C15_StoreErrorReply ==
    /\ [](\A i \in LogIndexes :
            RejectedSet(i) =>
               LET args == Handled(i).args
               IN  /\ log[i].to = {log[i].from}
                   /\ log[i].replies =
                         {errorReply(Handled(i),
                             NamingKey(applyNamespace(args.namespace, args.key)))}
                   /\ \A r \in RequestIds :
                         ops[r].message = Handled(i) =>
                            /\ ops[r].promise # "resolved"
                            /\ (ops[r].promise = "rejected" /\ ops[r].timer = "cleared")
                                  => ops[r].result = Replied(i).error)
    /\ [][ LET new == log'[Len(log) + 1]
           IN  (/\ HandlesOne
                /\ new.message.operation = "set"
                /\ storeRejects(new.message.args)) =>
                  (primary' = "running" /\ listeners' = listeners /\ cache' = cache) ]_vars

\* A rejected set was answered, its client's operation was rejected with
\* the error of the Reply, and another Request was handled after it.
C15_Witness ==
    /\ Len(log) = 2
    /\ RejectedSet(1)
    /\ ~log[2].threw
    /\ \E r \in RequestIds :
          /\ ops[r].message = Handled(1)
          /\ ops[r].promise = "rejected"
          /\ ops[r].result = Replied(1).error

----------------------------------------------------------------------------
(* C16 *)

\* The store obtained by applying the first n handled Requests one after
\* another, whole, in the order of the log, to the empty store.
RECURSIVE Replay(_)
Replay(n) ==
    IF n = 0 THEN <<>>
    ELSE LET before == Replay(n - 1)
             args   == Handled(n).args
             k      == args.namespace \o Separator \o ArgKey(args)
         IN  CASE IsOp(n, "set") /\ ~storeRejects(args)
                    -> [x \in DOMAIN before \cup {k} |->
                          IF x = k THEN args.value ELSE before[x]]
               [] IsOp(n, "delete")
                    -> Restrict(before, DOMAIN before \ {k})
               [] IsOp(n, "clear")
                    -> Restrict(before, {x \in DOMAIN before :
                                           ~startsWith(x, args.namespace \o Separator)})
               [] OTHER -> before

----------------------------------------------------------------------------
(* C17 *)

\* C17: for every handled Request with a recognised operation one Reply is
\* sent, with the clientId, requestId and sourceId of the Request and not
\* both data and error, and it is sent to the worker the Request came from
\* and to no other.
C17_OneReplyToSender ==
    /\ \A i \in LogIndexes :
          Handled(i).operation \in Methods =>
             /\ ~log[i].threw
             /\ Cardinality(log[i].replies) = 1
             /\ Replied(i).clientId = Handled(i).clientId
             /\ Replied(i).requestId = Handled(i).requestId
             /\ Replied(i).sourceId = Handled(i).sourceId
             /\ ~("data" \in DOMAIN Replied(i) /\ "error" \in DOMAIN Replied(i))
             /\ log[i].to = {log[i].from}
    /\ \A m \in toWorker :
          \E i \in LogIndexes : m.reply \in log[i].replies /\ m.to = log[i].from

\* Requests of clients in two workers were handled and each Reply is on its
\* way to the worker of its client.
C17_Witness ==
    /\ Len(log) = 2
    /\ ~log[1].threw /\ ~log[2].threw
    /\ log[1].from # log[2].from
    /\ Handled(1).sourceId = SourceId /\ Handled(2).sourceId = SourceId
    /\ toWorker = {[to |-> log[1].from, reply |-> Replied(1)],
                   [to |-> log[2].from, reply |-> Replied(2)]}

----------------------------------------------------------------------------
(* C18 *)

\* The (namespace, key) pair of the get, set or delete log[i].
PairOf(i) == <<Handled(i).args.namespace, ArgKey(Handled(i).args)>>

\* C18: two handled gets, sets or deletes on distinct (namespace, key)
\* pairs use distinct composite keys.
C18_CodecInjective ==
    \A i, j \in LogIndexes :
        (/\ ~log[i].threw /\ ~log[j].threw
         /\ Handled(i).operation \in {"get", "set", "delete"}
         /\ Handled(j).operation \in {"get", "set", "delete"}
         /\ PairOf(i) # PairOf(j)) =>
            applyNamespace(PairOf(i)[1], PairOf(i)[2])
               # applyNamespace(PairOf(j)[1], PairOf(j)[2])

----------------------------------------------------------------------------
(* C19 *)

\* C19: a settled operation keeps its outcome; a cleared timer never fires;
\* an operation is settled either by its timer, with the TimeoutError, or
\* by a reply that clears its armed timer; and a delivered reply changes no
\* operation but the one whose requestId it carries.
C19_SettlesAtMostOnce ==
    [][ /\ \A r \in RequestIds :
              /\ ops[r].promise # "pending" =>
                    (ops'[r].promise = ops[r].promise /\ ops'[r].result = ops[r].result)
              /\ ops[r].timer = "cleared" => ops'[r].timer = "cleared"
              /\ (ops[r].promise = "pending" /\ ops'[r].promise # "pending") =>
                    \/ /\ ops'[r].timer = "fired"
                       /\ ops'[r].promise = "rejected"
                       /\ ops'[r].result = TimeoutError
                    \/ /\ ops[r].timer = "armed"
                       /\ ops'[r].timer = "cleared"
        /\ \A m \in toWorker :
              DeliverReply(m) =>
                 \A r \in RequestIds : r # m.reply.requestId => ops'[r] = ops[r] ]_vars

\* The reply of a request arrived after its timer had fired and was
\* consumed: the operation is still rejected with the TimeoutError, while
\* the other operation was settled by its own reply.
C19_Witness ==
    \E r, q \in RequestIds :
        /\ ops[r].timer = "fired"
        /\ ops[r].promise = "rejected"
        /\ ops[r].result = TimeoutError
        /\ r \notin pendingRequests[ops[r].client]
        /\ ops[q].timer = "cleared"
        /\ ops[q].promise = "resolved"

----------------------------------------------------------------------------
(* C20 *)

\* Client c is the only client constructed in its process.
SoleClient(c) ==
    \A other \in ClientIndexes :
        clients[other].worker = clients[c].worker => other = c

\* The requestOptions client c was configured with: the defaults with the
\* requestOptions of its constructor argument.
ConfiguredRequestOptions(c) ==
    mergeOptions(InitialDefaultConfig.requestOptions,
                 IF "requestOptions" \in DOMAIN clients[c].config
                 THEN clients[c].config.requestOptions ELSE EmptyObject)

\* C20: on a client that allows overrides, a get or set called without
\* overrides sends the requestOptions the client was configured with,
\* whatever overrides earlier calls were given.
C20_OverridesDoNotPersist ==
    \A r \in RequestIds :
        (/\ SoleClient(ops[r].client)
         /\ ops[r].config.allowOverrides
         /\ ops[r].overrides = None
         /\ ops[r].message.operation \in {"get", "set"}) =>
            ops[r].message.args.options = ConfiguredRequestOptions(ops[r].client)

----------------------------------------------------------------------------
(* C21 *)

\* The config client c was constructed with: the defaults as the class is
\* loaded, with the properties of its constructor argument.
Configured(c) == merge(InitialDefaultConfig, clients[c].config)

\* No get or set was called with overrides by a client of process w.
NoOverridesIn(w) ==
    \A r \in RequestIds :
        clients[ops[r].client].worker = w => ops[r].overrides = None

\* C21: while no call passed overrides, the allowOverrides decision, the
\* timeout and the default requestOptions a client uses are those it was
\* constructed with, whatever other clients its process constructed before
\* or after it.
C21_ConfigsIndependent ==
    /\ \A c \in ClientIndexes :
          NoOverridesIn(clients[c].worker) =>
             /\ thisConfig(c).allowOverrides = Configured(c).allowOverrides
             /\ thisConfig(c).requestTimeout = Configured(c).requestTimeout
             /\ thisConfig(c).requestOptions = Configured(c).requestOptions
    /\ \A r \in RequestIds :
          NoOverridesIn(clients[ops[r].client].worker) =>
             ops[r].timeoutMs = Configured(ops[r].client).requestTimeout

----------------------------------------------------------------------------
(* C22 *)

\* C22: handling a message whose sourceId is not the protocol's leaves the
\* store as it is and the Coordinator running.
C22_OtherProtocolIgnored ==
    [][ LET new == log'[Len(log) + 1]
        IN  (HandlesOne /\ new.message.sourceId # SourceId) =>
               (cache' = cache /\ primary' = "running") ]_vars

====
